---------------------------- MODULE Spec2Model ----------------------------
(***************************************************************************)
(* A model of the terminal chat client of src/chat_with_media_v2.py: the   *)
(* command loop (start_chat), the asynchronous request                     *)
(* (request_async_response, show_thinking_animation) and the background    *)
(* thread running get_ai_response.  Every statement that reads or writes   *)
(* state shared by the two execution paths (self.messages, the history     *)
(* file, self.is_generating, self.last_response) is one step, so that the  *)
(* model has the interleavings the threads have.                           *)
(*                                                                         *)
(* A text is a pair <<s, r>>: the string s, and the request r it belongs   *)
(* to (the user input of request r, or the reply or the error the          *)
(* completion service gave to request r), so that texts of different       *)
(* requests are different texts.                                           *)
(***************************************************************************)
EXTENDS Naturals, Sequences, FiniteSets

\* The number of requests of a session that the model follows.
MaxRequests == 2

\* The ceiling of show_thinking_animation (60 seconds in the source), counted
\* in turns of its loop.
Ceiling == 2

Requests == 1..MaxRequests

\* What the user types as a request (anything that is no command).
UserInputs == {"hello"}

\* What the completion service answers when it answers.
Replies == {"reply"}

\* self.last_response = None
None == <<"None", 0>>

VARIABLES
    pc,             \* where the foreground path (start_chat) stands
    cur,            \* the number of requests submitted so far; the current one
    elapsed,        \* turns of the animation loop since start_time
    loop_exit,      \* why the animation loop of the current request ended
    is_generating,  \* self.is_generating
    last_response,  \* self.last_response
    output,         \* what the foreground printed for the current request
    messages,       \* self.messages
    file,           \* the content of chat_history.json
    bg,             \* bg[r]: where the thread of request r stands
    input,          \* input[r]: the user_input the thread of r was given
    answer,         \* answer[r]: what the service returned to r
    appended,       \* the pairs <<r, role>> whose message was ever appended
    abandoned,      \* some wait of this session ended at the ceiling
    fpc,            \* the trial of the functions: which step it is at
    typed,          \* the pieces of the text given to get_ai_response
    fstat,          \* fstat[k]: what the k-th local path names on the disk
    composed,       \* what create_message_content returned
    warned,         \* what create_message_content printed, in order
    max_tokens,     \* the max_tokens get_ai_response passes to the service
    stored,         \* what chat_history.json holds when load_history runs
    loaded          \* self.messages as load_history leaves it

\* the variables of the functions tried on their own
fnvars == <<fpc, typed, fstat, composed, warned, max_tokens, stored, loaded>>

\* the variables of the session
sessionvars == <<pc, cur, elapsed, loop_exit, is_generating, last_response,
                 output, messages, file, bg, input, answer, appended,
                 abandoned>>

vars == <<sessionvars, fnvars>>

\* what no step of a thread changes
fgvars == <<pc, cur, elapsed, loop_exit, output, abandoned, fnvars>>

----------------------------------------------------------------------------
\* Messages and Python's truth value of a response.

UserMessage(r, text) == [role |-> "user", content |-> <<text, r>>]

AssistantMessage(text) == [role |-> "assistant", content |-> text]

\* `if self.last_response:` is false for None and for the empty string.
Truthy(v) == v # None /\ v[1] # ""

\* list.append
AppendMsg(h, m) == Append(h, m)

\* The process runs: the threads are daemon threads and end with the process.
Running == pc \notin {"quit", "crashed"}

NoOutput == [kind |-> "none", text |-> None, req |-> 0]

\* nothing composed yet
NoContent == [kind |-> "none", text |-> <<>>, parts |-> <<>>]

\* chat_history.json does not exist
Absent == [kind |-> "absent", value |-> [type |-> "none", items |-> <<>>]]

\* the Python value []
EmptyList == [type |-> "list", items |-> <<>>]

\* no function is on trial
FnIdle ==
    /\ fpc = "off"
    /\ typed = <<>>
    /\ fstat = <<>>
    /\ composed = NoContent
    /\ warned = <<>>
    /\ max_tokens = 0
    /\ stored = Absent
    /\ loaded = EmptyList

Init ==
    /\ pc = "input"
    /\ cur = 0
    /\ elapsed = 0
    /\ loop_exit = "none"
    /\ is_generating = FALSE
    /\ last_response = None
    /\ output = NoOutput
    /\ messages = <<>>
    /\ file = <<>>
    /\ bg = [r \in Requests |-> "none"]
    /\ input = [r \in Requests |-> ""]
    /\ answer = [r \in Requests |-> None]
    /\ appended = {}
    /\ abandoned = FALSE
    /\ FnIdle

----------------------------------------------------------------------------
\* The foreground path: start_chat and request_async_response.

\* The process ends: its daemon threads end with it and the fields of the
\* object are gone.  The file stays; the history is kept as it was last.
ProcessEnds ==
    /\ cur' = 0
    /\ elapsed' = 0
    /\ loop_exit' = "none"
    /\ is_generating' = FALSE
    /\ last_response' = None
    /\ output' = NoOutput
    /\ bg' = [r \in Requests |-> "none"]
    /\ input' = [r \in Requests |-> ""]
    /\ answer' = [r \in Requests |-> None]
    /\ appended' = {}
    /\ abandoned' = FALSE
    /\ UNCHANGED <<messages, file, fnvars>>

\* 'quit'
CmdQuit ==
    /\ pc = "input"
    /\ pc' = "quit"
    /\ ProcessEnds

\* 'new', first statement: self.messages = []
NewClear ==
    /\ pc = "input"
    /\ messages' = <<>>
    /\ pc' = "new_save"
    /\ UNCHANGED <<cur, elapsed, loop_exit, is_generating, last_response,
                   output, file, bg, input, answer, appended,
                   abandoned, fnvars>>

\* 'new', second statement: self.save_history()
NewSave ==
    /\ pc = "new_save"
    /\ file' = messages
    /\ pc' = "input"
    /\ UNCHANGED <<cur, elapsed, loop_exit, is_generating, last_response,
                   output, messages, bg, input, answer, appended,
                   abandoned, fnvars>>

\* 'new', second statement, the file cannot be opened for writing: the
\* exception leaves start_chat and main, and the process ends.
NewSaveFail ==
    /\ pc = "new_save"
    /\ pc' = "crashed"
    /\ ProcessEnds

\* 'history': prints every message and changes nothing of the state
CmdHistory ==
    /\ pc = "input"
    /\ UNCHANGED vars

\* any other non-empty input: request_async_response begins,
\* self.is_generating = True
CmdSend ==
    /\ pc = "input"
    /\ cur < MaxRequests
    /\ \E text \in UserInputs :
          input' = [input EXCEPT ![cur + 1] = text]
    /\ cur' = cur + 1
    /\ is_generating' = TRUE
    /\ loop_exit' = "none"
    /\ output' = NoOutput
    /\ pc' = "start_thread"
    /\ UNCHANGED <<elapsed, last_response, messages, file, bg, answer,
                   appended,
                   abandoned, fnvars>>

\* thread.start(), and show_thinking_animation takes start_time
StartThread ==
    /\ pc = "start_thread"
    /\ bg' = [bg EXCEPT ![cur] = "compose"]
    /\ elapsed' = 0
    /\ pc' = "animate"
    /\ UNCHANGED <<cur, loop_exit, is_generating, last_response, output,
                   messages, file, input, answer, appended,
                   abandoned, fnvars>>

\* The loop condition without its ceiling.
LoopCondNoCeiling == is_generating

\* while self.is_generating and time.time() - start_time < 60
LoopCond == is_generating /\ elapsed < Ceiling

\* one turn of the animation loop
Tick ==
    /\ pc = "animate"
    /\ LoopCond
    /\ elapsed' = IF elapsed < Ceiling THEN elapsed + 1 ELSE elapsed
    /\ UNCHANGED <<pc, cur, loop_exit, is_generating, last_response, output,
                   messages, file, bg, input, answer, appended,
                   abandoned, fnvars>>

\* the loop condition is false: the animation ends
ExitLoop ==
    /\ pc = "animate"
    /\ ~LoopCond
    /\ loop_exit' = IF is_generating THEN "ceiling" ELSE "completed"
    /\ elapsed' = 0
    /\ pc' = "display"
    /\ abandoned' = (abandoned \/ is_generating)
    /\ UNCHANGED <<cur, is_generating, last_response, output,
                   messages, file, bg, input, answer, appended, fnvars>>

\* if self.last_response: print it, else print the apology
Display ==
    /\ pc = "display"
    /\ output' = IF Truthy(last_response)
                 THEN [kind |-> "AI", text |-> last_response, req |-> cur]
                 ELSE [kind |-> "sorry", text |-> None, req |-> cur]
    /\ loop_exit' = "none"
    /\ pc' = "input"
    /\ UNCHANGED <<cur, elapsed, is_generating, last_response, messages, file,
                   bg, input, answer, appended,
                   abandoned, fnvars>>

----------------------------------------------------------------------------
\* The background path: get_ai_response in the thread of request r.

\* extract_image_references, create_message_content, self.messages.append
BgAppendUser(r) ==
    /\ Running
    /\ bg[r] = "compose"
    /\ messages' = AppendMsg(messages, UserMessage(r, input[r]))
    /\ appended' = appended \cup {<<r, "user">>}
    /\ bg' = [bg EXCEPT ![r] = "request"]
    /\ UNCHANGED <<fgvars, is_generating, last_response, file, input, answer>>

\* The call made before the user message is appended.
BgBeginCallFirst(r) ==
    /\ Running
    /\ bg[r] \in {"compose", "request"}
    /\ bg' = [bg EXCEPT ![r] = "waiting"]
    /\ UNCHANGED <<fgvars, is_generating, last_response, messages, file,
                   input, answer, appended>>

\* self.client.chat.completions.create(...) is called
BgBeginCall(r) ==
    /\ Running
    /\ bg[r] = "request"
    /\ bg' = [bg EXCEPT ![r] = "waiting"]
    /\ UNCHANGED <<fgvars, is_generating, last_response, messages, file,
                   input, answer, appended>>

\* the call returns a reply
BgCallReturns(r) ==
    /\ Running
    /\ bg[r] = "waiting"
    /\ \E s \in Replies : answer' = [answer EXCEPT ![r] = <<s, r>>]
    /\ bg' = [bg EXCEPT ![r] = "resolved_ok"]
    /\ UNCHANGED <<fgvars, is_generating, last_response, messages, file,
                   input, appended>>

\* An except clause that takes the last message back out of the history.
BgCallRaisesRollback(r) ==
    /\ Running
    /\ bg[r] = "waiting"
    /\ last_response' = <<"Error", r>>
    /\ messages' = IF messages = <<>> THEN messages
                   ELSE SubSeq(messages, 1, Len(messages) - 1)
    /\ bg' = [bg EXCEPT ![r] = "clear"]
    /\ UNCHANGED <<fgvars, is_generating, file, input, answer, appended>>

\* the call raises; except Exception as e:
\* self.last_response = f"Error: {str(e)}"
BgCallRaises(r) ==
    /\ Running
    /\ bg[r] = "waiting"
    /\ last_response' = <<"Error", r>>
    /\ bg' = [bg EXCEPT ![r] = "clear"]
    /\ UNCHANGED <<fgvars, is_generating, messages, file, input, answer,
                   appended>>

\* self.messages.append({"role": "assistant", "content": ai_response})
BgAppendAssistant(r) ==
    /\ Running
    /\ bg[r] = "resolved_ok"
    /\ messages' = AppendMsg(messages, AssistantMessage(answer[r]))
    /\ appended' = appended \cup {<<r, "assistant">>}
    /\ bg' = [bg EXCEPT ![r] = "save"]
    /\ UNCHANGED <<fgvars, is_generating, last_response, file, input, answer>>

\* self.save_history() together with an early self.is_generating = False.
BgSaveClearsFirst(r) ==
    /\ Running
    /\ bg[r] = "save"
    /\ file' = messages
    /\ is_generating' = FALSE
    /\ bg' = [bg EXCEPT ![r] = "store"]
    /\ UNCHANGED <<fgvars, last_response, messages, input, answer, appended>>

\* self.save_history()
BgSave(r) ==
    /\ Running
    /\ bg[r] = "save"
    /\ file' = messages
    /\ bg' = [bg EXCEPT ![r] = "store"]
    /\ UNCHANGED <<fgvars, is_generating, last_response, messages, input,
                   answer, appended>>

\* self.save_history() raises and nothing catches it: the thread ends where
\* it stands.
BgSaveFailEscapes(r) ==
    /\ Running
    /\ bg[r] = "save"
    /\ bg' = [bg EXCEPT ![r] = "save_raised"]
    /\ UNCHANGED <<fgvars, is_generating, last_response, messages, file,
                   input, answer, appended>>

\* self.save_history() raises (the file cannot be opened for writing);
\* except Exception as e: self.last_response = f"Error: {str(e)}"
BgSaveFail(r) ==
    /\ Running
    /\ bg[r] = "save"
    /\ last_response' = <<"Error", r>>
    /\ bg' = [bg EXCEPT ![r] = "clear"]
    /\ UNCHANGED <<fgvars, is_generating, messages, file, input, answer,
                   appended>>

\* self.last_response = ai_response
BgStore(r) ==
    /\ Running
    /\ bg[r] = "store"
    /\ last_response' = answer[r]
    /\ bg' = [bg EXCEPT ![r] = "clear"]
    /\ UNCHANGED <<fgvars, is_generating, messages, file, input, answer,
                   appended>>

\* self.is_generating = False
BgClear(r) ==
    /\ Running
    /\ bg[r] = "clear"
    /\ is_generating' = FALSE
    /\ answer' = [answer EXCEPT ![r] = None]
    /\ bg' = [bg EXCEPT ![r] = "done"]
    /\ UNCHANGED <<fgvars, last_response, messages, file, input, appended>>

----------------------------------------------------------------------------

Foreground ==
    \/ CmdQuit
    \/ NewClear
    \/ NewSave
    \/ NewSaveFail
    \/ CmdHistory
    \/ CmdSend
    \/ StartThread
    \/ Tick
    \/ ExitLoop
    \/ Display

Background(r) ==
    \/ BgAppendUser(r)
    \/ BgBeginCall(r)
    \/ BgCallReturns(r)
    \/ BgCallRaises(r)
    \/ BgAppendAssistant(r)
    \/ BgSave(r)
    \/ BgSaveFail(r)
    \/ BgStore(r)
    \/ BgClear(r)

Next == Foreground \/ \E r \in Requests : Background(r)

Spec == Init /\ [][Next]_vars

----------------------------------------------------------------------------
\* The functions of get_ai_response and of the start of a session, tried on
\* their own: extract_image_references, create_message_content with
\* encode_image_to_base64, the choice of max_tokens, and load_history.
\*
\* A text is a sequence of characters.  "H" stands for the prefix "http://"
\* or "https://", the only thing startswith() looks for; " " is the white
\* space strip() removes.  input() returns one line, so no text holds a line
\* break and the `.` of the pattern matches every character.

\* The most pieces a typed text is put together from.
MaxPieces == 3

Pieces ==
    { <<"{", "{">>, <<"}", "}">>, <<"{">>, <<"}">>, <<" ">>, <<"a">>, <<"H">>,
      <<"{", "{", "a", "}", "}">>, <<"{", "{", "b", "}", "}">>,
      <<"{", "{", "H", "}", "}">>, <<"{", "{", " ", "a", " ", "}", "}">> }

\* What a local path names: nothing, a file that cannot be read, a file of
\* no bytes, a file of some bytes.
FileStatus == {"missing", "unreadable", "empty", "image"}

\* the text holds "{{" at i
OpensAt(t, i) == i + 1 <= Len(t) /\ t[i] = "{" /\ t[i + 1] = "{"

\* the text holds "}}" at j
ClosesAt(t, j) == j + 1 <= Len(t) /\ t[j] = "}" /\ t[j + 1] = "}"

\* r'\{\{(.*?)\}\}' tried at i: where the "}}" of the match begins, 0 for no
\* match.  Non-greedy: the first "}}" behind the "{{".
MatchClose(t, i) ==
    IF OpensAt(t, i) /\ \E j \in (i + 2)..Len(t) : ClosesAt(t, j)
    THEN CHOOSE j \in (i + 2)..Len(t) :
             /\ ClosesAt(t, j)
             /\ \A k \in (i + 2)..(j - 1) : ~ClosesAt(t, k)
    ELSE 0

\* re.findall(pattern, text), from i on: the captured groups, left to right
RECURSIVE FindAll(_, _)
FindAll(t, i) ==
    IF i > Len(t) THEN <<>>
    ELSE IF MatchClose(t, i) # 0
         THEN <<SubSeq(t, i + 2, MatchClose(t, i) - 1)>>
                  \o FindAll(t, MatchClose(t, i) + 2)
         ELSE FindAll(t, i + 1)

\* re.sub(pattern, '', text), from i on
RECURSIVE RemoveAll(_, _)
RemoveAll(t, i) ==
    IF i > Len(t) THEN <<>>
    ELSE IF MatchClose(t, i) # 0
         THEN RemoveAll(t, MatchClose(t, i) + 2)
         ELSE <<t[i]>> \o RemoveAll(t, i + 1)

\* str.strip()
RECURSIVE Strip(_)
Strip(t) ==
    IF t = <<>> THEN t
    ELSE IF t[1] = " " THEN Strip(Tail(t))
    ELSE IF t[Len(t)] = " " THEN Strip(SubSeq(t, 1, Len(t) - 1))
    ELSE t

\* ref.startswith(('http://', 'https://'))
IsUrl(ref) == ref # <<>> /\ ref[1] = "H"

\* The loop putting each reference at the front of its list.
RECURSIVE ClassifyPrepend(_, _, _, _)
ClassifyPrepend(refs, k, urls, paths) ==
    IF k > Len(refs) THEN [urls |-> urls, paths |-> paths]
    ELSE IF IsUrl(Strip(refs[k]))
         THEN ClassifyPrepend(refs, k + 1, <<Strip(refs[k])>> \o urls, paths)
         ELSE ClassifyPrepend(refs, k + 1, urls, <<Strip(refs[k])>> \o paths)

\* the loop of extract_image_references over references[k..], with the two
\* lists as they stand
RECURSIVE Classify(_, _, _, _)
Classify(refs, k, urls, paths) ==
    IF k > Len(refs) THEN [urls |-> urls, paths |-> paths]
    ELSE IF IsUrl(Strip(refs[k]))
         THEN Classify(refs, k + 1, Append(urls, Strip(refs[k])), paths)
         ELSE Classify(refs, k + 1, urls, Append(paths, Strip(refs[k])))

\* extract_image_references(text)
ExtractImageReferences(t) == Classify(FindAll(t, 1), 1, <<>>, <<>>)

TextPart(t) == [type |-> "text", value |-> t]

\* a remote image: the url as it was found
UrlPart(u) == [type |-> "image_url", value |-> u]

\* a local image: "data:image/jpeg;base64," and the bytes of the file at p
InlinePart(p) == [type |-> "image_url", value |-> <<"data">> \o p]

\* the loop over image_paths[k..]: the parts added for the files there are
RECURSIVE LocalParts(_, _, _)
LocalParts(paths, st, k) ==
    IF k > Len(paths) THEN <<>>
    ELSE IF st[k] = "image"
         THEN <<InlinePart(paths[k])>> \o LocalParts(paths, st, k + 1)
         ELSE LocalParts(paths, st, k + 1)

\* what the loop over image_paths[k..] prints: the warning of a missing file,
\* the error of encode_image_to_base64; nothing for a file of no bytes, whose
\* encoding is the empty string
RECURSIVE LocalWarnings(_, _, _)
LocalWarnings(paths, st, k) ==
    IF k > Len(paths) THEN <<>>
    ELSE IF st[k] = "missing"
         THEN <<<<"Warning: Image file not found", paths[k]>>>>
                  \o LocalWarnings(paths, st, k + 1)
    ELSE IF st[k] = "unreadable"
         THEN <<<<"Error encoding image", paths[k]>>>>
                  \o LocalWarnings(paths, st, k + 1)
    ELSE LocalWarnings(paths, st, k + 1)

\* [{"type": "image_url", ...} for url in image_urls]
UrlParts(urls) == [k \in 1..Len(urls) |-> UrlPart(urls[k])]

\* the cleaned text: re.sub(...).strip()
CleanText(t) == Strip(RemoveAll(t, 1))

\* create_message_content returning the cleaned text when there is no
\* reference.
CreateMessageContentCleaned(t, urls, paths, st) ==
    IF urls = <<>> /\ paths = <<>>
    THEN [kind |-> "plain", text |-> CleanText(t), parts |-> <<>>]
    ELSE [kind |-> "parts", text |-> <<>>,
          parts |-> (IF CleanText(t) # <<>> THEN <<TextPart(CleanText(t))>>
                                            ELSE <<>>)
                    \o UrlParts(urls) \o LocalParts(paths, st, 1)]

\* create_message_content(text, image_urls, image_paths), the files of the
\* paths being st
CreateMessageContent(t, urls, paths, st) ==
    IF urls = <<>> /\ paths = <<>>
    THEN [kind |-> "plain", text |-> t, parts |-> <<>>]
    ELSE [kind |-> "parts", text |-> <<>>,
          parts |-> (IF CleanText(t) # <<>> THEN <<TextPart(CleanText(t))>>
                                            ELSE <<>>)
                    \o UrlParts(urls) \o LocalParts(paths, st, 1)]

\* max_tokens = 4096; has_images is computed and not used
MaxTokensVision == 4096

\* the max_tokens of the request, has_images being given
MaxTokensFor(has_images) == MaxTokensVision

\* What chat_history.json may hold: text that is no JSON (the empty file
\* too), bytes that are no text, or a JSON value: a list (of messages, or
\* with an item that is no message), or a value that is no list.
JsonValues ==
    { [type |-> "list", items |-> <<>>],
      [type |-> "list", items |-> <<"message">>],
      [type |-> "list", items |-> <<"message", "message">>],
      [type |-> "list", items |-> <<"other">>],
      [type |-> "list", items |-> <<"message", "other">>],
      [type |-> "object", items |-> <<>>],
      [type |-> "number", items |-> <<>>] }

NoValue == [type |-> "none", items |-> <<>>]

StoredFiles ==
    { Absent, [kind |-> "garbage", value |-> NoValue],
      [kind |-> "undecodable", value |-> NoValue] }
    \cup { [kind |-> "json", value |-> v] : v \in JsonValues }

\* load_history(): self.messages afterwards; "raised" when the exception is
\* none that load_history catches (UnicodeDecodeError is no JSONDecodeError)
LoadHistory(f) ==
    IF f.kind = "absent" THEN EmptyList
    ELSE IF f.kind = "garbage" THEN EmptyList
    ELSE IF f.kind = "undecodable" THEN [type |-> "raised", items |-> <<>>]
    ELSE f.value

\* the pieces typed, put together
RECURSIVE Flatten(_)
Flatten(ps) == IF ps = <<>> THEN <<>> ELSE Head(ps) \o Flatten(Tail(ps))

\* the text typed so far
Text == Flatten(typed)

\* The trials begin: a file for load_history, or an empty line to type on.
FnInit ==
    /\ pc = "off"
    /\ cur = 0
    /\ elapsed = 0
    /\ loop_exit = "none"
    /\ is_generating = FALSE
    /\ last_response = None
    /\ output = NoOutput
    /\ messages = <<>>
    /\ file = <<>>
    /\ bg = [r \in Requests |-> "none"]
    /\ input = [r \in Requests |-> ""]
    /\ answer = [r \in Requests |-> None]
    /\ appended = {}
    /\ abandoned = FALSE
    /\ typed = <<>>
    /\ fstat = <<>>
    /\ composed = NoContent
    /\ warned = <<>>
    /\ max_tokens = 0
    /\ loaded = EmptyList
    /\ \/ fpc = "load" /\ stored \in StoredFiles
       \/ fpc = "type" /\ stored = Absent

\* load_history() at the start of a session
FnLoad ==
    /\ fpc = "load"
    /\ loaded' = LoadHistory(stored)
    /\ fpc' = "loaded"
    /\ UNCHANGED <<sessionvars, typed, fstat, composed, warned, max_tokens,
                   stored>>

\* the user types on
FnType ==
    /\ fpc = "type"
    /\ Len(typed) < MaxPieces
    /\ \E p \in Pieces : typed' = Append(typed, p)
    /\ UNCHANGED <<sessionvars, fpc, fstat, composed, warned, max_tokens,
                   stored, loaded>>

\* get_ai_response(user_input) up to the call: the references, the content,
\* max_tokens; st is what the disk holds for each local path
FnCompose ==
    /\ fpc = "type"
    /\ LET refs == ExtractImageReferences(Text)
       IN  /\ \E st \in [1..Len(refs.paths) -> FileStatus] :
                 /\ fstat' = st
                 /\ composed' = CreateMessageContent(Text, refs.urls,
                                                     refs.paths, st)
                 /\ warned' = LocalWarnings(refs.paths, st, 1)
           /\ max_tokens' =
                 MaxTokensFor(Len(refs.urls) > 0 \/ Len(refs.paths) > 0)
    /\ fpc' = "composed"
    /\ UNCHANGED <<sessionvars, typed, stored, loaded>>

FnNext == FnLoad \/ FnType \/ FnCompose

FnSpec == FnInit /\ [][FnNext]_vars

\* Every started thread keeps being scheduled while the process runs.
ThreadSpec == Spec /\ \A r \in Requests : WF_vars(Background(r))

\* The foreground path keeps running while a request is being served: the
\* thread is started, the loop turns, ends, and the result is displayed.
FairSpec == Spec /\ WF_vars(StartThread \/ Tick \/ ExitLoop \/ Display)

----------------------------------------------------------------------------
\* What the claims speak of.

\* the request a message belongs to
ReqOf(m) == m.content[2]

\* the thread of r was started and has not finished
InFlight(r) == bg[r] \notin {"none", "done"}

\* the completion-service call of r has begun
CallBegun(r) ==
    bg[r] \in {"waiting", "resolved_ok", "save", "store", "clear", "done"}

\* the completion-service call of r has returned or raised
CallResolved(r) ==
    bg[r] \in {"resolved_ok", "save", "store", "clear", "done"}

\* the thread of r has written its result to last_response
ResultStored(r) == bg[r] \in {"clear", "done"}

HasUserMessage(h, r) ==
    \E i \in 1..Len(h) : h[i].role = "user" /\ ReqOf(h[i]) = r

HasAssistantMessage(h, r) ==
    \E i \in 1..Len(h) : h[i].role = "assistant" /\ ReqOf(h[i]) = r

IsPrefix(s, t) == Len(s) <= Len(t) /\ SubSeq(t, 1, Len(s)) = s

\* the process runs and no path stands between a change of the history and
\* the save that follows it
Quiescent == Running /\ pc # "new_save" /\ \A r \in Requests : bg[r] # "save"

\* the process runs and no reset has taken a message out of the history
NoMessageLost ==
    /\ Running
    /\ \A e \in appended :
          IF e[2] = "user" THEN HasUserMessage(messages, e[1])
                           ELSE HasAssistantMessage(messages, e[1])

\* the user messages stand in the history in the order of their requests
UsersInOrder ==
    \A i, j \in 1..Len(messages) :
        (i < j /\ messages[i].role = "user" /\ messages[j].role = "user")
            => ReqOf(messages[i]) < ReqOf(messages[j])

\* the step is Display
DisplayStep == pc = "display" /\ pc' = "input"

----------------------------------------------------------------------------
\* C1: at most one background get_ai_response call is in flight at any time,
\* also after the wait of the previous request ended at the ceiling.
C1_AtMostOneInFlight ==
    Cardinality({r \in Requests : InFlight(r)}) <= 1

\* C2: for every request, its user message was appended before its call to
\* the completion service began, and its assistant message is appended only
\* after that call has resolved.
C2_AppendsAroundCall ==
    \A r \in Requests :
        /\ CallBegun(r) => <<r, "user">> \in appended
        /\ <<r, "assistant">> \in appended => CallResolved(r)

\* C2, its case: a request whose call returned and whose two messages were
\* appended, the thread finished.
C2_Witness ==
    \E r \in Requests :
        /\ bg[r] = "done"
        /\ {<<r, "user">>, <<r, "assistant">>} \subseteq appended

\* C3: as long as no reset has emptied the history, and with the user
\* messages standing in the order of their requests, assistant messages stand
\* in the history in the order of their requests and each directly follows
\* the user message it answers.
C3_AssistantsInOrder ==
    (NoMessageLost /\ UsersInOrder) =>
    /\ \A i \in 1..Len(messages) :
          messages[i].role = "assistant" =>
              /\ i > 1
              /\ messages[i - 1].role = "user"
              /\ ReqOf(messages[i - 1]) = ReqOf(messages[i])
    /\ \A i, j \in 1..Len(messages) :
          (i < j /\ messages[i].role = "assistant"
                 /\ messages[j].role = "assistant")
              => ReqOf(messages[i]) < ReqOf(messages[j])

\* C4: once the call of a request has resolved and its thread has finished,
\* a user message of that request in the history has its assistant message
\* (the reply, or the error text) in the history too.
C4_ResolvedHasAssistant ==
    \A r \in Requests :
        (bg[r] = "done" /\ HasUserMessage(messages, r))
            => HasAssistantMessage(messages, r)

\* C5: whenever no path stands between a change of the history and the save
\* that follows it, the persisted history equals the history in memory.
C5_PersistedEqualsMemory ==
    Quiescent => file = messages

\* C6: while the current request is Generating (from the moment the flag is
\* set, the thread not yet started or running), its user message is in the
\* history and in the persisted history.
C6_UserRecordedBeforeGenerating ==
    (pc \in {"start_thread", "animate"} /\ is_generating)
        => HasUserMessage(messages, cur) /\ HasUserMessage(file, cur)

\* C7: when the loop ended at the ceiling and the thread of the current
\* request has stored no result, the foreground prints the "no response"
\* apology and no response text.
C7_CeilingReportsNoResponse ==
    [][(DisplayStep /\ loop_exit = "ceiling" /\ ~ResultStored(cur))
          => output'.kind = "sorry"]_vars

\* C8: the text displayed for a request is a result of that request, and only
\* the thread of the current request ends the current wait.
C8_NoStaleResult ==
    [][/\ (DisplayStep /\ output'.kind = "AI") => output'.text[2] = cur
       /\ (pc = "animate" /\ is_generating /\ ~is_generating')
             => bg[cur] = "clear" /\ bg'[cur] = "done"]_vars

\* C9: every request_async_response returns to the command loop: from the
\* start of the thread, through the polling loop, the foreground reaches the
\* prompt again, also when the call never resolves.
C9_PollingLoopTerminates ==
    (pc \in {"start_thread", "animate", "display"}) ~> (pc = "input")

\* C9, its case: the loop has ended at the ceiling while the call of the
\* current request is still unresolved.
C9_Witness ==
    pc = "display" /\ loop_exit = "ceiling" /\ bg[cur] = "waiting"

\* C10: every step other than the first statement of 'new' leaves the history
\* it found as a prefix of the history it leaves.
C10_AppendOnly ==
    [][~(pc = "input" /\ pc' = "new_save") => IsPrefix(messages, messages')]_vars

\* C10, its case: an abandoned call has appended its reply behind the user
\* message of a later request, and a call has failed.
C10_Witness ==
    /\ \E i \in 2..Len(messages) :
          /\ messages[i].role = "assistant"
          /\ ReqOf(messages[i - 1]) # ReqOf(messages[i])
    /\ \E r \in Requests : bg[r] = "done" /\ ~HasAssistantMessage(messages, r)

----------------------------------------------------------------------------
\* What the claims about the functions speak of.

\* the text holds a marker: "{{", and "}}" somewhere behind it
HasMarker(t) ==
    \E i, j \in 1..Len(t) : OpensAt(t, i) /\ ClosesAt(t, j) /\ j >= i + 2

\* the text holds "{{" or "}}"
HasDelimiter(t) == \E i \in 1..Len(t) : OpensAt(t, i) \/ ClosesAt(t, i)

\* the bodies of the markers of the text, trimmed, left to right
Bodies(t) == [k \in 1..Len(FindAll(t, 1)) |-> Strip(FindAll(t, 1)[k])]

IsPath(ref) == ~IsUrl(ref)

HasImagePart(c) ==
    \E k \in 1..Len(c.parts) : c.parts[k].type = "image_url"

\* the inline parts of the paths[k..] whose file is of a kind in kinds
RECURSIVE InlinePartsOf(_, _, _, _)
InlinePartsOf(paths, st, kinds, k) ==
    IF k > Len(paths) THEN <<>>
    ELSE (IF st[k] \in kinds THEN <<InlinePart(paths[k])>> ELSE <<>>)
             \o InlinePartsOf(paths, st, kinds, k + 1)

\* the file holds a history: a JSON list of messages
ValidHistory(f) ==
    /\ f.kind = "json"
    /\ f.value.type = "list"
    /\ \A k \in 1..Len(f.value.items) : f.value.items[k] = "message"

\* the most max_tokens of a request without an image (chat_with_media.py)
MaxTokensText == 512

\* C11: create_message_content never returns a structured content without
\* any part.
C11_NeverEmptyStructured ==
    fpc = "composed" => ~(composed.kind = "parts" /\ composed.parts = <<>>)

\* C12: for a text with at least one marker, no text part of the composed
\* content holds "{{" or "}}".
C12_NoDelimiterInTextPart ==
    (fpc = "composed" /\ HasMarker(Text)) =>
        \A k \in 1..Len(composed.parts) :
            composed.parts[k].type = "text"
                => ~HasDelimiter(composed.parts[k].value)

\* C13: for a text without a marker, extraction yields no url and no path and
\* the composed content is the plain text, unchanged.
C13_NoMarkerPlainText ==
    (fpc = "composed" /\ ~HasMarker(Text)) =>
        /\ ExtractImageReferences(Text) = [urls |-> <<>>, paths |-> <<>>]
        /\ composed = [kind |-> "plain", text |-> Text, parts |-> <<>>]

\* C13, its case: a text without a marker that begins with a blank and holds
\* an unclosed "{{" has been composed.
C13_Witness ==
    /\ fpc = "composed"
    /\ ~HasMarker(Text)
    /\ Text # <<>>
    /\ Text[1] = " "
    /\ \E i \in 1..Len(Text) : OpensAt(Text, i)

\* C14: the urls are the trimmed marker bodies that begin with the http
\* prefix, the paths are the others, each list in the order of the text, and
\* every body is in exactly one of them.
C14_ClassifiedInOrder ==
    fpc \in {"type", "composed"} =>
        LET refs == ExtractImageReferences(Text)
        IN  /\ refs.urls = SelectSeq(Bodies(Text), IsUrl)
            /\ refs.paths = SelectSeq(Bodies(Text), IsPath)
            /\ Len(refs.urls) + Len(refs.paths) = Len(Bodies(Text))

\* C14, its case: the markers b, H, a in this order, H the only url.
C14_Witness ==
    /\ fpc = "type"
    /\ Bodies(Text) = << <<"b">>, <<"H">>, <<"a">> >>
    /\ ExtractImageReferences(Text) =
           [urls |-> << <<"H">> >>, paths |-> << <<"b">>, <<"a">> >>]

\* C15: with a reference present, the content is the cleaned text if not
\* empty, then the urls in order, then an inline part for exactly the paths
\* whose encoding succeeds (the file is there and is read), in order; a
\* missing or unreadable file is reported and omitted.
C15_PartsInOrder ==
    (fpc = "composed" /\ HasMarker(Text)) =>
        LET refs == ExtractImageReferences(Text)
        IN  /\ composed.kind = "parts"
            /\ composed.parts =
                   (IF CleanText(Text) # <<>>
                    THEN <<TextPart(CleanText(Text))>> ELSE <<>>)
                   \o UrlParts(refs.urls)
                   \o InlinePartsOf(refs.paths, fstat, {"empty", "image"}, 1)
            /\ Len(warned) =
                   Cardinality({k \in 1..Len(fstat) :
                                   fstat[k] \in {"missing", "unreadable"}})

\* C17: load_history leaves the empty history whenever the file is absent or
\* holds anything but a history, and raises nothing.
C17_LoadDiscardsMalformed ==
    (fpc = "loaded" /\ ~ValidHistory(stored)) => loaded = EmptyList

\* C18: max_tokens is 4096 exactly when the request holds an image part, and
\* at most 512 when it holds none.
C18_MaxTokensByImages ==
    fpc = "composed" =>
        IF HasImagePart(composed) THEN max_tokens = MaxTokensVision
        ELSE max_tokens <= MaxTokensText


\* The 'new' command has run to its end: self.messages = [] and then
\* self.save_history() (lines 252-253).
ResetStep == pc = "new_save" /\ pc' = "input"

\* C16: reset is idempotent.  From any state, when the 'new' command
\* completes, for the first time or again right after, the in-memory history
\* is empty and the persisted document is the empty sequence.
C16_ResetLeavesEmpty ==
    [][ResetStep => (messages' = <<>> /\ file' = <<>>)]_vars


\* the thread of r has run to its end
ThreadDone(r) == bg[r] = "done"

\* C19: every thread whose completion-service call has returned, with a
\* reply or with a failure, a failure of the save included, comes to store a
\* result in last_response and after that to clear is_generating, for as
\* long as the process runs; it never clears the flag without having stored.
C19_ResolvedStoresThenClears ==
    \A r \in Requests :
        /\ (CallResolved(r) /\ Running) ~> (ResultStored(r) \/ ~Running)
        /\ (ResultStored(r) /\ Running) ~> (ThreadDone(r) \/ ~Running)

\* C19, its case: the reply of request 1 was appended, the save failed, and
\* the thread has stored the error text and cleared the flag.
C19_Witness ==
    /\ ThreadDone(1)
    /\ <<1, "assistant">> \in appended
    /\ last_response = <<"Error", 1>>
    /\ ~is_generating

\* C20: with no earlier call abandoned at the ceiling, when the polling loop
\* has ended because is_generating was false, last_response holds the result
\* of the current request, and unless that is an error text it is the
\* content of the last message of the history, an assistant message.
C20_HandoffOrdering ==
    (pc = "display" /\ loop_exit = "completed" /\ ~abandoned)
        => /\ last_response[2] = cur
           /\ last_response[1] # "Error"
                 => /\ messages # <<>>
                    /\ messages[Len(messages)] = AssistantMessage(last_response)

\* C20, its case: the second request of a session without ceiling exits has
\* completed with a reply.
C20_Witness ==
    /\ pc = "display" /\ loop_exit = "completed" /\ ~abandoned
    /\ cur = 2
    /\ last_response = <<"reply", 2>>


\* Request r was submitted before a reset: its thread appended the user
\* message and 'new' has since taken it out of the history.
ResetSince(r) == <<r, "user">> \in appended /\ ~HasUserMessage(messages, r)

\* C21: once 'new' has run to its end, the history and the persisted document hold no
\* assistant message of a request submitted before that reset: a call
\* launched before the reset and resolving after it does not append to, or
\* persist into, the fresh history.
C21_NoLateAppendAfterReset ==
    \A r \in Requests :
        (Running /\ pc # "new_save" /\ ResetSince(r))
            => /\ ~HasAssistantMessage(messages, r)
               /\ ~HasAssistantMessage(file, r)

=============================================================================
